---- MODULE Spec2Model ----
(***************************************************************************)
(* mesuradors-api (src/main.py, version 1.2.9): the ingestion pipeline.    *)
(*                                                                         *)
(* One HTTP request is followed from its arrival at /ingest/{secret} or    *)
(* /ingest_chs/{secret} to its response.  Requests share no mutable state  *)
(* in main.py, so one request at a time is the whole behaviour.            *)
(*                                                                         *)
(* Numbers.  Python floats are modelled as exact rationals <<n, d>> in     *)
(* lowest terms with d > 0; binary floating-point representation error is  *)
(* not modelled.  <<0, 0>> stands for Python's None where a number is      *)
(* expected (a NULL column of the meters table, an absent JSON field).     *)
(* The string NoneStr stands for None where a string is expected.          *)
(***************************************************************************)
EXTENDS Integers, Sequences, FiniteSets, TLC

VARIABLES
    pc,           \* position of the request: recv, lookup, convert, insert, done
    endpoint,     \* "ingest" or "ingest_chs"
    secret,       \* the {secret} path parameter
    query_event,  \* request.query_params.get("event") (ingest_chs only)
    body,         \* the JSON body
    meter_id,     \* ingest_core argument
    raw_value,    \* ingest_core argument
    raw_unit,     \* ingest_core argument
    meter,        \* dict(rows[0]) returned by get_meter_config
    conv,         \* what convert_value did: its return tuple and its divisor
    calls,        \* the collaborator calls made so far, in order
    response      \* the HTTP response of the request

vars == <<pc, endpoint, secret, query_event, body, meter_id, raw_value,
          raw_unit, meter, conv, calls, response>>

----------------------------------------------------------------------------
(* Rationals                                                               *)

NoneNum == <<0, 0>>
NoneStr == "<None>"

Abs(n) == IF n < 0 THEN -n ELSE n

RECURSIVE GCD(_, _)
GCD(a, b) == IF b = 0 THEN a ELSE GCD(b, a % b)

\* n/d in lowest terms with a positive denominator (d # 0).
Rat(n, d) ==
    LET s == IF d < 0 THEN -1 ELSE 1
        g == GCD(Abs(n), Abs(d))
    IN  <<(s * n) \div g, (s * d) \div g>>

Num(n) == <<n, 1>>

RLt(a, b) == a[1] * b[2] < b[1] * a[2]
RLe(a, b) == a[1] * b[2] <= b[1] * a[2]
RSub(a, b) == Rat(a[1] * b[2] - b[1] * a[2], a[2] * b[2])
RMul(a, b) == Rat(a[1] * b[1], a[2] * b[2])
RAbs(a) == <<Abs(a[1]), a[2]>>

\* Python's a / b on floats: ZeroDivisionError when b is zero.
truediv(a, b) ==
    IF b[1] = 0
    THEN [raised |-> TRUE, q |-> NoneNum]
    ELSE [raised |-> FALSE, q |-> Rat(a[1] * b[2], a[2] * b[1])]

\* Python's round(x, 3): the nearest multiple of 1/1000, a tie going to the
\* even multiple.
round3(x) ==
    LET m == x[1] * 1000
        f == m \div x[2]              \* floor(1000 x)
        r == m - f * x[2]             \* remainder, 0 <= r < d
        k == IF 2 * r < x[2] THEN f
             ELSE IF 2 * r > x[2] THEN f + 1
             ELSE IF f % 2 = 0 THEN f ELSE f + 1
    IN  Rat(k, 1000)

----------------------------------------------------------------------------
(* CONVERSION (main.py 206-271)                                            *)

\* str.strip().lower() on the unit strings that occur in the model.
strip_lower(u) ==
    CASE u = " MM " -> "mm"
      [] u = "Cm"   -> "cm"
      [] OTHER      -> u

distance_to_cm(value, unit) ==
    IF unit = NoneStr THEN value
    ELSE LET u == strip_lower(unit)
         IN  IF u = "mm" THEN truediv(value, Num(10)).q
             ELSE IF u = "cm" THEN value
             ELSE IF u = "m" THEN RMul(value, Num(100))
             ELSE value

clamp(x, lo, hi) ==
    IF RLt(x, lo) THEN lo
    ELSE IF RLt(hi, x) THEN hi
    ELSE x

\* Python truthiness of meter.get("scale_type").
falsy_str(s) == s = NoneStr \/ s = ""

\* The pass-through return: (float(raw_value), display_unit), no division.
pass_through(raw, display_unit) ==
    [raised |-> FALSE, ret |-> <<raw, display_unit>>, divisor |-> NoneNum]

\* The defect of version 1.2.7: the level divided by the dead-zone margin
\* zm_sensor_cm instead of the usable height.
gasoil_linear_litres_div_z(raw_cm, h, z, litres, display_unit) ==
    LET usable_h == RSub(h, z)
        level_cm == clamp(RSub(h, raw_cm), Num(0), usable_h)
        ratio    == truediv(level_cm, z)
    IN  IF ratio.raised
        THEN [raised |-> TRUE, ret |-> <<NoneNum, display_unit>>,
              divisor |-> z]
        ELSE LET value_l == clamp(RMul(ratio.q, litres), Num(0), litres)
             IN  [raised |-> FALSE, ret |-> <<round3(value_l), display_unit>>,
                  divisor |-> z]

\* The litres computation of the gasoil_linear branch once usable_h is
\* known to be positive (main.py 260-268).
gasoil_linear_litres(raw_cm, h, z, litres, display_unit) ==
    LET usable_h == RSub(h, z)
        level_cm == clamp(RSub(h, raw_cm), Num(0), usable_h)
        ratio    == truediv(level_cm, usable_h)
    IN  IF ratio.raised
        THEN [raised |-> TRUE, ret |-> <<NoneNum, display_unit>>,
              divisor |-> usable_h]
        ELSE LET value_l == clamp(RMul(ratio.q, litres), Num(0), litres)
             IN  [raised |-> FALSE, ret |-> <<round3(value_l), display_unit>>,
                  divisor |-> usable_h]

\* The gasoil_linear branch without its "usable_h <= 0" test.
gasoil_linear_no_height_check(raw, unit, m) ==
    LET h      == m.h_sensor_cm
        z      == m.zm_sensor_cm
        litres == m.litres_diposit
    IN  IF h = NoneNum \/ z = NoneNum \/ litres = NoneNum
        THEN pass_through(raw, m.display_unit)
        ELSE gasoil_linear_litres(distance_to_cm(raw, unit), h, z, litres,
                                  m.display_unit)

\* The gasoil_linear branch (main.py 242-268).
gasoil_linear(raw, unit, m) ==
    LET h      == m.h_sensor_cm
        z      == m.zm_sensor_cm
        litres == m.litres_diposit
    IN  IF h = NoneNum \/ z = NoneNum \/ litres = NoneNum
        THEN pass_through(raw, m.display_unit)
        ELSE LET raw_cm == distance_to_cm(raw, unit)
             IN  IF RLe(RSub(h, z), Num(0))
                 THEN pass_through(raw, m.display_unit)
                 ELSE gasoil_linear_litres(raw_cm, h, z, litres, m.display_unit)

\* convert_value(raw_value, raw_unit, meter).  ret is the tuple the function
\* returns; divisor is the denominator of the one division it performed
\* (NoneNum when it performed none).
convert_value(raw, unit, m) ==
    IF falsy_str(m.scale_type) THEN pass_through(raw, m.display_unit)
    ELSE IF m.scale_type = "gasoil_linear" THEN gasoil_linear(raw, unit, m)
    ELSE pass_through(raw, m.display_unit)

----------------------------------------------------------------------------
(* JSON values.  A scalar field is [t, q, s]: its JSON type, its number     *)
(* when t = "num", its text when t = "str".  t = "absent" is a key that is  *)
(* not in the dict, so that dict.get(key) is None.                          *)

JAbsent == [t |-> "absent", q |-> NoneNum, s |-> ""]
JNull   == [t |-> "null", q |-> NoneNum, s |-> ""]
JTrue   == [t |-> "bool", q |-> Num(1), s |-> ""]
JList   == [t |-> "list", q |-> NoneNum, s |-> ""]
JNum(q) == [t |-> "num", q |-> q, s |-> ""]
JStr(s) == [t |-> "str", q |-> NoneNum, s |-> s]

\* dict.get(key) is None
is_none(v) == v.t \in {"absent", "null"}

\* Python truthiness of dict.get(key)
truthy(v) ==
    CASE v.t \in {"absent", "null"} -> FALSE
      [] v.t = "str"  -> v.s # ""
      [] v.t = "num"  -> v.q[1] # 0
      [] v.t = "bool" -> v.q[1] # 0
      [] OTHER        -> FALSE          \* the only list of the model is []

\* str.strip() on the strings that occur in the model.
strip(s) ==
    CASE s = "  "                     -> ""
      [] s = " sonda_nord "           -> "sonda_nord"
      [] s = " nivell_gasoil_escola " -> "nivell_gasoil_escola"
      [] OTHER                        -> s

\* float(x): the number of a JSON number, of True, or of a numeric string;
\* TypeError or ValueError otherwise.
py_float(v) ==
    CASE v.t = "num"  -> [raised |-> FALSE, q |-> v.q]
      [] v.t = "bool" -> [raised |-> FALSE, q |-> v.q]
      [] v.t = "str" /\ v.s = "12.5" -> [raised |-> FALSE, q |-> Rat(25, 2)]
      [] v.t = "str" /\ v.s = " 40 " -> [raised |-> FALSE, q |-> Num(40)]
      [] OTHER        -> [raised |-> TRUE, q |-> NoneNum]

\* str(x) of a truthy meter_id.
py_str(v) ==
    CASE v.t = "str" -> v.s
      [] v.t = "num" /\ v.q = Num(7) -> "7"
      [] OTHER -> "True"

----------------------------------------------------------------------------
(* CONFIG (main.py 79-90)                                                  *)

INGEST_SECRET == "massanet123"

CHS_DEVICE_MAP == [n \in {"nivell_gasoil_escola"} |-> "gasoil_escola"]

\* The device name used as the meter id without the table.
chs_meter_id_unmapped(device_name) == device_name

\* CHS_DEVICE_MAP.get(device_name, device_name)
chs_meter_id(device_name) ==
    IF device_name \in DOMAIN CHS_DEVICE_MAP
    THEN CHS_DEVICE_MAP[device_name]
    ELSE device_name

----------------------------------------------------------------------------
(* DF555 / ChirpStack helpers (main.py 154-194)                            *)
(* A decoded-object slot is [t, distancia_mm]: t = "dict" when the value   *)
(* at that key is a dict.  body.uplink and body.event are [t, object];     *)
(* body.deviceInfo is [t, deviceName].                                     *)

EmptyDict == [t |-> "dict", distancia_mm |-> JAbsent]

\* The same search with body.event.object tried before body.uplink.object.
extract_df555_object_event_first(b) ==
    IF b.object.t = "dict" THEN b.object
    ELSE IF b.event.t = "dict" /\ b.event.object.t = "dict"
         THEN b.event.object
    ELSE IF b.uplink.t = "dict" /\ b.uplink.object.t = "dict"
         THEN b.uplink.object
    ELSE [t |-> "dict", distancia_mm |-> JAbsent]

extract_df555_object(b) ==
    IF b.object.t = "dict" THEN b.object
    ELSE IF b.uplink.t = "dict" /\ b.uplink.object.t = "dict"
         THEN b.uplink.object
    ELSE IF b.event.t = "dict" /\ b.event.object.t = "dict"
         THEN b.event.object
    ELSE EmptyDict

extract_device_name(b) ==
    IF /\ b.deviceInfo.t = "dict"
       /\ b.deviceInfo.deviceName.t = "str"
       /\ strip(b.deviceInfo.deviceName.s) # ""
    THEN strip(b.deviceInfo.deviceName.s)
    ELSE IF b.deviceName.t = "str" /\ strip(b.deviceName.s) # ""
         THEN strip(b.deviceName.s)
    ELSE NoneStr

----------------------------------------------------------------------------
(* Responses, rows and collaborator calls                                  *)

\* An HTTP response.  keys are the keys of the returned JSON object (of the
\* HTTPException detail when code # 200).
Resp(code, status, detail, keys, mid, rawv, val) ==
    [code |-> code, status |-> status, detail |-> detail, keys |-> keys,
     meter_id |-> mid, raw_value |-> rawv, value |-> val]

NoResp == Resp(0, "", "", {}, NoneStr, NoneNum, NoneNum)

http_error(code, detail) ==
    Resp(code, "error", detail, {"detail"}, NoneStr, NoneNum, NoneNum)

\* The handlers' "except Exception" branch (main.py 440-450, 511-521).
unhandled(route) ==
    Resp(500, "error", "Unhandled exception in " \o route,
         {"error", "message", "trace", "version"}, NoneStr, NoneNum, NoneNum)

route_of(ep) == IF ep = "ingest" THEN "/ingest" ELSE "/ingest_chs"

ignored(reason) ==
    Resp(200, "ignored", reason, {"status", "reason", "version"},
         NoneStr, NoneNum, NoneNum)

ignored_with_meter(reason, mid) ==
    Resp(200, "ignored", reason, {"status", "reason", "meter_id", "version"},
         mid, NoneNum, NoneNum)

\* ingest_core's return value (main.py 344-357).
inserted(mid, rawv, val) ==
    Resp(200, "inserted", "",
         {"status", "meter_id", "group_id", "raw_value", "raw_unit", "value",
          "unit", "battery_v", "temperature_c", "tilt_deg", "table_id",
          "version"},
         mid, rawv, val)

NoMeter ==
    [scale_type |-> NoneStr, display_unit |-> NoneStr, h_sensor_cm |-> NoneNum,
     zm_sensor_cm |-> NoneNum, litres_diposit |-> NoneNum]

NoConv == [raised |-> FALSE, ret |-> <<NoneNum, NoneStr>>, divisor |-> NoneNum]

\* One call of a BigQuery collaborator: bq.query in get_meter_config with the
\* rows it returned, bq.insert_rows_json in insert_reading with the rows it
\* was given and the errors it reported.  errors = <<"failed">> is a call
\* that raised instead of returning.
LookupCall(mid, rows) ==
    [fn |-> "get_meter_config", meter_id |-> mid, found |-> rows # <<>>,
     rows |-> <<>>, errors |-> <<>>]

LookupFailed(mid) ==
    [fn |-> "get_meter_config", meter_id |-> mid, found |-> FALSE,
     rows |-> <<>>, errors |-> <<"failed">>]

InsertCall(row, errors) ==
    [fn |-> "insert_rows_json", meter_id |-> row.meter_id, found |-> FALSE,
     rows |-> <<row>>, errors |-> errors]

----------------------------------------------------------------------------
(* METERS and BIGQUERY INSERT (main.py 132-148, 277-281)                   *)

\* get_meter_config without its "if not rows" test: an empty meter.
get_meter_config_no_check(mid, rows) ==
    [raised |-> FALSE, m |-> IF rows = <<>> THEN NoMeter ELSE rows[1],
     response |-> NoResp]

\* get_meter_config after bq.query returned rows: 404 when there is none.
get_meter_config(mid, rows) ==
    IF rows = <<>>
    THEN [raised |-> TRUE, m |-> NoMeter,
          response |-> http_error(404, "Meter not found: " \o mid)]
    ELSE [raised |-> FALSE, m |-> rows[1], response |-> NoResp]

\* insert_reading that only logs the errors.
insert_reading_ignores_errors(errors) ==
    [raised |-> FALSE, response |-> NoResp]

\* insert_reading after bq.insert_rows_json returned errors.
insert_reading(errors) ==
    IF errors # <<>>
    THEN [raised |-> TRUE, response |-> http_error(500, "bq_errors")]
    ELSE [raised |-> FALSE, response |-> NoResp]

\* The row ingest_core builds (main.py 310-327); the pass-through columns
\* (event_time, location, raw, uplink_id, group_id, telemetry) are left out.
build_row(mid, rawv, unit, cv) ==
    [meter_id |-> mid, value |-> cv.ret[1], unit |-> cv.ret[2],
     raw_value |-> rawv, raw_unit |-> unit]

----------------------------------------------------------------------------
(* ROUTES (main.py 384-521): the part of each handler before ingest_core   *)

Core(mid, rawv, unit) ==
    [kind |-> "core", response |-> NoResp, meter_id |-> mid,
     raw_value |-> rawv, raw_unit |-> unit]

Respond(r) ==
    [kind |-> "respond", response |-> r, meter_id |-> NoneStr,
     raw_value |-> NoneNum, raw_unit |-> NoneStr]

\* The validation with "meter_id is None" in place of "not meter_id".
ingest_validate_id_not_none(b) ==
    IF is_none(b.meter_id)
    THEN Respond(http_error(400, "Missing field: meter_id"))
    ELSE IF b.value.t = "absent"
    THEN Respond(http_error(400, "Missing field: value"))
    ELSE IF py_float(b.value).raised
    THEN Respond(http_error(400, "Field value must be a number"))
    ELSE Core(py_str(b.meter_id), py_float(b.value).q, b.unit)

\* main.py 405-415: the validation of the generic payload.
ingest_validate(b) ==
    IF ~truthy(b.meter_id)
    THEN Respond(http_error(400, "Missing field: meter_id"))
    ELSE IF b.value.t = "absent"
    THEN Respond(http_error(400, "Missing field: value"))
    ELSE IF py_float(b.value).raised
    THEN Respond(http_error(400, "Field value must be a number"))
    ELSE Core(py_str(b.meter_id), py_float(b.value).q, b.unit)

\* main.py 397-437.  A body that is JSON but no object has no .get: the
\* AttributeError is raised outside the handler's try and the framework
\* answers 500.
ingest_route(sec, b) ==
    IF sec # INGEST_SECRET THEN Respond(http_error(403, "Invalid secret"))
    ELSE IF b.json = "invalid"
    THEN Respond(http_error(400, "Invalid JSON body"))
    ELSE IF b.json # "object"
    THEN Respond(http_error(500, "Internal Server Error"))
    ELSE ingest_validate(b)

\* The event filter that knows only the join event.
event_filtered_join_only(event) == event = "join"

\* main.py 470: "if event and event != 'up'"
event_filtered(event) == event # NoneStr /\ event # "" /\ event # "up"

\* main.py 473-507: the body of the try block up to ingest_core.
chs_adapter(b) ==
    LET device_name == extract_device_name(b)
        mid == chs_meter_id(device_name)
        obj == extract_df555_object(b)
        distancia_mm == obj.distancia_mm
    IN  IF device_name = NoneStr
        THEN Respond(ignored("missing deviceInfo.deviceName"))
        ELSE IF is_none(distancia_mm)
        THEN Respond(ignored_with_meter("missing object.distancia_mm", mid))
        ELSE IF py_float(distancia_mm).raised
        THEN Respond(unhandled("/ingest_chs"))
        ELSE Core(mid, py_float(distancia_mm).q, "mm")

\* main.py 466-507.
ingest_chs_route(sec, event, b) ==
    IF sec # INGEST_SECRET THEN Respond(http_error(403, "Invalid secret"))
    ELSE IF event_filtered(event)
    THEN Respond(ignored("event=" \o event))
    ELSE chs_adapter(b)

----------------------------------------------------------------------------
(* Inputs                                                                  *)

MaxRawK == 6

Secrets == {INGEST_SECRET, "wrong"}

Events == {NoneStr, "", "up", "join", "status"}

\* raw_unit is a string or None, as convert_value declares it.  /ingest does
\* not check the type of body["unit"]; a unit that is no string is outside
\* the model.
Units == {NoneStr, "mm", "cm", "m", " MM ", "ft"}

\* distancia_mm at body.object, body.uplink.object, body.event.object
ObjectSlots ==
    {[t |-> "absent", distancia_mm |-> JAbsent],
     [t |-> "other", distancia_mm |-> JAbsent]}
    \cup {[t |-> "dict", distancia_mm |-> d] :
            d \in {JAbsent, JNull, JNum(Num(40)), JStr("abc")}}

NestedSlots(mm) ==
    {[t |-> "absent", distancia_mm |-> JAbsent],
     [t |-> "other", distancia_mm |-> JAbsent]}
    \cup {[t |-> "dict", distancia_mm |-> d] : d \in {JAbsent, JNum(Num(mm))}}

Wrappers(mm) ==
    {[t |-> "absent", object |-> [t |-> "absent", distancia_mm |-> JAbsent]],
     [t |-> "other", object |-> [t |-> "absent", distancia_mm |-> JAbsent]]}
    \cup {[t |-> "dict", object |-> o] : o \in NestedSlots(mm)}

DeviceInfos ==
    {[t |-> "absent", deviceName |-> JAbsent],
     [t |-> "other", deviceName |-> JAbsent]}
    \cup {[t |-> "dict", deviceName |-> n] :
            n \in {JAbsent, JNum(Num(7)), JStr("  "),
                   JStr("nivell_gasoil_escola"), JStr(" sonda_nord ")}}

DeviceNames ==
    {JAbsent, JStr("  "), JStr("sonda_sud"), JStr(" nivell_gasoil_escola ")}

NoWrapper == [t |-> "absent", object |-> [t |-> "absent", distancia_mm |-> JAbsent]]

\* The body of a request to /ingest_chs (the framework has checked that it
\* is a JSON object).
ChsBodies ==
    {[json |-> "object", meter_id |-> JAbsent, value |-> JAbsent,
      unit |-> NoneStr, object |-> o, uplink |-> u, event |-> e,
      deviceInfo |-> di, deviceName |-> dn] :
        o \in ObjectSlots, u \in Wrappers(350), e \in Wrappers(3000),
        di \in DeviceInfos, dn \in DeviceNames}

\* The body of a request to /ingest.
IngestBodies ==
    {[json |-> j, meter_id |-> mid, value |-> v, unit |-> u,
      object |-> [t |-> "absent", distancia_mm |-> JAbsent],
      uplink |-> NoWrapper, event |-> NoWrapper,
      deviceInfo |-> [t |-> "absent", deviceName |-> JAbsent],
      deviceName |-> JAbsent] :
        j \in {"object"},
        mid \in {JAbsent, JNull, JStr(""), JNum(Num(0)), JNum(Num(7)),
                 JStr("gasoil_escola"), JStr("sonda_nord")},
        v \in {JAbsent, JNull, JList, JStr("abc"), JStr("12.5"), JTrue,
               JNum(Num(3000)), JNum(Num(40))},
        u \in {NoneStr, "mm", "cm"}}
    \cup
    {[json |-> j, meter_id |-> JAbsent, value |-> JAbsent, unit |-> NoneStr,
      object |-> [t |-> "absent", distancia_mm |-> JAbsent],
      uplink |-> NoWrapper, event |-> NoWrapper,
      deviceInfo |-> [t |-> "absent", deviceName |-> JAbsent],
      deviceName |-> JAbsent] : j \in {"invalid", "array"}}

Meter(st, du, h, z, l) ==
    [scale_type |-> st, display_unit |-> du, h_sensor_cm |-> h,
     zm_sensor_cm |-> z, litres_diposit |-> l]

\* The rows of the meters table a lookup may return.
TableMeters ==
    {Meter(NoneStr, "mm", NoneNum, NoneNum, NoneNum),
     Meter("gasoil_linear", "L", Num(200), Num(20), Num(1000)),
     Meter("gasoil_linear", "L", Num(200), NoneNum, Num(1000)),
     Meter("gasoil_linear", "L", Num(20), Num(20), Num(1000)),
     Meter("gasoil_linear", "L", Num(200), Num(20), Num(-5)),
     Meter("aigua_m3", NoneStr, Num(200), Num(20), Num(1000))}

\* The meters and raw values convert_value is applied to on its own.
ConvMeters ==
    {Meter(st, du, h, z, l) :
        st \in {NoneStr, "", "gasoil_linear", "aigua_m3"},
        du \in {NoneStr, "L"},
        h \in {NoneNum, Num(200), Num(20)},
        z \in {NoneNum, Num(0), Num(20), Num(50), Num(200), Num(250)},
        l \in {NoneNum, Num(1000), Num(1), Num(0), Num(-5)}}

ConvRaws ==
    {Num(-50), Rat(25, 2), Num(40), Num(100)}
    \cup {Num(500 * k) : k \in 0..MaxRawK}

----------------------------------------------------------------------------
(* The request                                                             *)

Init ==
    /\ pc = "recv"
    /\ \/ /\ endpoint = "ingest"
          /\ query_event = NoneStr
          /\ body \in IngestBodies
       \/ /\ endpoint = "ingest_chs"
          /\ query_event \in Events
          /\ body \in ChsBodies
    /\ secret \in Secrets
    /\ meter_id = NoneStr
    /\ raw_value = NoneNum
    /\ raw_unit = NoneStr
    /\ meter = NoMeter
    /\ conv = NoConv
    /\ calls = <<>>
    /\ response = NoResp

\* A handler up to its call of ingest_core, or to its early response.
Route(a) ==
    /\ IF a.kind = "respond"
       THEN /\ pc' = "done"
            /\ response' = a.response
            /\ UNCHANGED <<meter_id, raw_value, raw_unit>>
       ELSE /\ pc' = "lookup"
            /\ meter_id' = a.meter_id
            /\ raw_value' = a.raw_value
            /\ raw_unit' = a.raw_unit
            /\ UNCHANGED response
    /\ UNCHANGED <<endpoint, secret, query_event, body, meter, conv, calls>>

ingest ==
    /\ pc = "recv"
    /\ endpoint = "ingest"
    /\ Route(ingest_route(secret, body))

ingest_chs ==
    /\ pc = "recv"
    /\ endpoint = "ingest_chs"
    /\ Route(ingest_chs_route(secret, query_event, body))

\* ingest_core, main.py 299: the lookup.  bq.query returns no row, one row,
\* or fails; a failure reaches the handler's "except Exception".
ingest_core_lookup ==
    /\ pc = "lookup"
    /\ \/ \E rows \in {<<>>} \cup {<<m>> : m \in TableMeters} :
            LET r == get_meter_config(meter_id, rows)
            IN  /\ calls' = Append(calls, LookupCall(meter_id, rows))
                /\ IF r.raised
                   THEN /\ pc' = "done"
                        /\ response' = r.response
                        /\ UNCHANGED meter
                   ELSE /\ pc' = "convert"
                        /\ meter' = r.m
                        /\ UNCHANGED response
       \/ /\ calls' = Append(calls, LookupFailed(meter_id))
          /\ pc' = "done"
          /\ response' = unhandled(route_of(endpoint))
          /\ UNCHANGED meter
    /\ UNCHANGED <<endpoint, secret, query_event, body, meter_id, raw_value,
                   raw_unit, conv>>

\* ingest_core, main.py 300-327: the conversion and the row.
ingest_core_convert ==
    /\ pc = "convert"
    /\ conv' = convert_value(raw_value, raw_unit, meter)
    /\ IF conv'.raised
       THEN /\ pc' = "done"
            /\ response' = unhandled(route_of(endpoint))
       ELSE /\ pc' = "insert"
            /\ UNCHANGED response
    /\ UNCHANGED <<endpoint, secret, query_event, body, meter_id, raw_value,
                   raw_unit, meter, calls>>

\* ingest_core, main.py 329-357: the insert and the response.
\* bq.insert_rows_json reports no error, reports row errors, or fails.
ingest_core_insert ==
    /\ pc = "insert"
    /\ LET row == build_row(meter_id, raw_value, raw_unit, conv)
       IN  \/ \E errors \in {<<>>, <<"row 0: invalid">>} :
                LET r == insert_reading(errors)
                IN  /\ calls' = Append(calls, InsertCall(row, errors))
                    /\ response' =
                         IF r.raised THEN r.response
                         ELSE inserted(meter_id, raw_value, conv.ret[1])
          \/ /\ calls' = Append(calls, InsertCall(row, <<"failed">>))
             /\ response' = unhandled(route_of(endpoint))
    /\ pc' = "done"
    /\ UNCHANGED <<endpoint, secret, query_event, body, meter_id, raw_value,
                   raw_unit, meter, conv>>

Next ==
    \/ ingest
    \/ ingest_chs
    \/ ingest_core_lookup
    \/ ingest_core_convert
    \/ ingest_core_insert

Spec == Init /\ [][Next]_vars

----------------------------------------------------------------------------
(* convert_value on its own: every meter of ConvMeters, every raw value    *)
(* and unit.                                                               *)

InitConv ==
    /\ pc = "call"
    /\ endpoint = "ingest"
    /\ secret = INGEST_SECRET
    /\ query_event = NoneStr
    /\ body \in {b \in IngestBodies : b.json = "array"}
    /\ meter_id = "gasoil_escola"
    /\ raw_value \in ConvRaws
    /\ raw_unit \in Units
    /\ meter \in ConvMeters
    /\ conv = NoConv
    /\ calls = <<>>
    /\ response = NoResp

apply_convert_value ==
    /\ pc = "call"
    /\ conv' = convert_value(raw_value, raw_unit, meter)
    /\ pc' = "returned"
    /\ UNCHANGED <<endpoint, secret, query_event, body, meter_id, raw_value,
                   raw_unit, meter, calls, response>>

NextConv == apply_convert_value

SpecConv == InitConv /\ [][NextConv]_vars

----------------------------------------------------------------------------
(* Properties of convert_value (checked under SpecConv)                    *)

Returned == pc = "returned"

H == meter.h_sensor_cm
Z == meter.zm_sensor_cm
L == meter.litres_diposit

IsLinear == meter.scale_type = "gasoil_linear"
ParamsPresent == H # NoneNum /\ Z # NoneNum /\ L # NoneNum

\* The linear tank strategy is applied: H, Z, L present and H - Z > 0.
LinearApplies == IsLinear /\ ParamsPresent /\ RLt(Num(0), RSub(H, Z))

\* The raw value in centimetres, unit by unit.
RawCm ==
    IF raw_unit \in {"mm", " MM "} THEN Rat(raw_value[1], raw_value[2] * 10)
    ELSE IF raw_unit = "m" THEN Rat(raw_value[1] * 100, raw_value[2])
    ELSE raw_value

\* clamp((clamp(H - rawCm, 0, H - Z) / (H - Z)) * L, 0, L), unrounded;
\* clamp is _clamp of main.py.
ExactLitres ==
    LET usable == RSub(H, Z)
        level  == clamp(RSub(H, RawCm), Num(0), usable)
        ratio  == Rat(level[1] * usable[2], level[2] * usable[1])
    IN  clamp(RMul(ratio, L), Num(0), L)

\* C1 as stated: whenever the linear tank strategy is applied, convert_value
\* returns exactly clamp((clamp(H - rawCm, 0, H - Z) / (H - Z)) * L, 0, L).
C1_ReturnsExactLitres ==
    (Returned /\ LinearApplies) =>
        (~conv.raised /\ conv.ret[1] = ExactLitres)

\* C1 amended: whenever the linear tank strategy is applied, convert_value
\* returns that expression rounded to 3 decimals (a multiple of 1/1000 at
\* most 0.0005 away from it), the division is by H - Z, and the two worked
\* examples give 1000.0.
C1_ReturnsRoundedLitres ==
    (Returned /\ LinearApplies) =>
        /\ ~conv.raised
        /\ conv.divisor = RSub(H, Z)
        /\ 1000 % conv.ret[1][2] = 0
        /\ RLe(RAbs(RSub(conv.ret[1], ExactLitres)), Rat(1, 2000))
        /\ (H = Num(200) /\ Z = Num(50) /\ L = Num(1000)
              /\ raw_value = Num(100) /\ raw_unit = "mm")
             => conv.ret[1] = Num(1000)
        /\ (H = Num(200) /\ Z = Num(20) /\ L = Num(1000)
              /\ raw_value = Num(40) /\ raw_unit = "mm")
             => conv.ret[1] = Num(1000)

\* The linear strategy was applied to a reading strictly inside the usable
\* range whose litres are no multiple of 1/1000 before rounding.
C1_Witness ==
    /\ Returned /\ LinearApplies
    /\ H = Num(200) /\ Z = Num(20) /\ L = Num(1000)
    /\ raw_value = Num(1000) /\ raw_unit = "mm"
    /\ conv.ret[1] = Rat(555556, 1000)

\* C2: whenever the linear tank strategy is applied, the returned value lies
\* in [0, L] and is never negative.
C2_ValueWithinCapacity ==
    (Returned /\ LinearApplies) =>
        /\ ~conv.raised
        /\ RLe(Num(0), conv.ret[1])
        /\ RLe(conv.ret[1], L)

\* The four fallback cases of C3.
ScaleAbsent == meter.scale_type = NoneStr
ScaleUnrecognised == meter.scale_type \notin {NoneStr, "gasoil_linear"}
LinearMissingParam == IsLinear /\ ~ParamsPresent
LinearBadHeight == IsLinear /\ ParamsPresent /\ RLe(RSub(H, Z), Num(0))

\* C3: convert_value never raises; in each fallback case it returns
\* (rawValue, displayUnit) exactly; and it never divides by a zero or
\* negative denominator.
C3_FallbackPassThrough ==
    Returned =>
        /\ ~conv.raised
        /\ (ScaleAbsent \/ ScaleUnrecognised \/ LinearMissingParam
              \/ LinearBadHeight)
             => /\ conv.ret = <<raw_value, meter.display_unit>>
                /\ conv.divisor = NoneNum
        /\ conv.divisor # NoneNum => RLt(Num(0), conv.divisor)

\* A linear-tank meter with H - Z = 0 was passed through.
C3_Witness ==
    /\ Returned /\ LinearBadHeight
    /\ H = Num(20) /\ Z = Num(20)
    /\ raw_unit = "mm" /\ raw_value = Num(3000)
    /\ conv.ret = <<Num(3000), meter.display_unit>>

----------------------------------------------------------------------------
(* Properties of the two entry points (checked under Spec).  The secret    *)
(* check is a pre-filter: they are about requests that carry INGEST_SECRET. *)

Chs == endpoint = "ingest_chs" /\ secret = INGEST_SECRET
Generic == endpoint = "ingest" /\ secret = INGEST_SECRET

Done == pc = "done"

\* The request ended before ingest_core: no lookup, no insert.
NoCollaboratorCall == calls = <<>> /\ pc \in {"recv", "done"}

IgnoredOutcome == response.status = "ignored" /\ response.code = 200

Lookups == {i \in DOMAIN calls : calls[i].fn = "get_meter_config"}
Inserts == {i \in DOMAIN calls : calls[i].fn = "insert_rows_json"}

C5_NotFoundNoInsert ==
    /\ \A i \in Lookups :
         (~calls[i].found /\ calls[i].errors = <<>>) =>
            /\ Done
            /\ response.code = 404
            /\ response.status = "error"
            /\ Inserts = {}
    /\ \A i \in Inserts :
         \E j \in Lookups : j < i /\ calls[j].found

\* The lookup of an unmapped device name found no row: 404 and no insert.
C5_Witness ==
    /\ Done /\ response.code = 404 /\ Inserts = {}
    /\ endpoint = "ingest_chs" /\ meter_id = "sonda_nord"

\* C6: row-level errors end the request as a 500 carrying the errors; the
\* insert is attempted once, with one row; "inserted" is answered only
\* after one insert that reported no errors.
C6_InsertOnceAllOrNothing ==
    /\ Cardinality(Inserts) <= 1
    /\ \A i \in Inserts : Len(calls[i].rows) = 1
    /\ \A i \in Inserts :
         calls[i].errors = <<"row 0: invalid">> =>
            /\ Done
            /\ response.code = 500
            /\ response.detail = "bq_errors"
            /\ response.status # "inserted"
    /\ response.status = "inserted" =>
         /\ Cardinality(Inserts) = 1
         /\ \A i \in Inserts : calls[i].errors = <<>>
         /\ calls[Len(calls)].fn = "insert_rows_json"

\* The insert reported row errors and the request failed.
C6_Witness ==
    /\ Done /\ response.code = 500 /\ response.detail = "bq_errors"
    /\ Cardinality(Inserts) = 1
    /\ calls[Len(calls)].errors = <<"row 0: invalid">>

\* The three locations of the decoded object, in the order of C7.
Candidates ==
    <<body.object,
      IF body.uplink.t = "dict" THEN body.uplink.object
      ELSE [t |-> "absent", distancia_mm |-> JAbsent],
      IF body.event.t = "dict" THEN body.event.object
      ELSE [t |-> "absent", distancia_mm |-> JAbsent]>>

DictAt == {i \in 1..3 : Candidates[i].t = "dict"}

FirstDict == Candidates[CHOOSE i \in DictAt : \A j \in DictAt : i <= j]

\* C7: the decoded object is the first dict among body.object,
\* body.uplink.object, body.event.object, and it is the one whose distance
\* is ingested; with no dict at any location the request is ignored, with
\* no calibration lookup and no storage insert.
C7_FirstDictWins ==
    Chs =>
        /\ DictAt # {} => extract_df555_object(body) = FirstDict
        /\ (DictAt # {} /\ pc \notin {"recv", "done"}) =>
              raw_value = FirstDict.distancia_mm.q
        /\ DictAt = {} =>
              /\ NoCollaboratorCall
              /\ Done => IgnoredOutcome

\* body.object is no dict, body.uplink.object and body.event.object are:
\* the distance of body.uplink.object was ingested.
C7_Witness ==
    /\ Chs /\ pc = "lookup"
    /\ body.object.t = "other"
    /\ body.uplink.t = "dict" /\ body.uplink.object.distancia_mm = JNum(Num(350))
    /\ body.event.t = "dict" /\ body.event.object.distancia_mm = JNum(Num(3000))
    /\ raw_value = Num(350)

\* A usable device name: a string that is not blank.
Usable(v) == v.t = "str" /\ v.s \notin {"", "  "}

\* The device name of the payload as sent: deviceInfo.deviceName, else the
\* top-level deviceName.
SentName ==
    IF body.deviceInfo.t = "dict" /\ Usable(body.deviceInfo.deviceName)
    THEN body.deviceInfo.deviceName.s
    ELSE IF Usable(body.deviceName) THEN body.deviceName.s
    ELSE NoneStr

\* distancia_mm is not in the decoded object.
DistanceAbsent == DictAt = {} \/ FirstDict.distancia_mm.t = "absent"

MappedId(name) ==
    IF name = "nivell_gasoil_escola" THEN "gasoil_escola" ELSE name

\* C8 as stated: no usable device name, or no distance, is ignored with no
\* lookup and no insert; with a name and no distance the ignored response
\* carries the mapped id, or the name itself, unchanged.
C8_IgnoredCarriesName ==
    Chs =>
        /\ (SentName = NoneStr \/ DistanceAbsent) =>
              /\ NoCollaboratorCall
              /\ Done => IgnoredOutcome
        /\ (SentName # NoneStr /\ DistanceAbsent /\ Done) =>
              /\ "meter_id" \in response.keys
              /\ response.meter_id = MappedId(SentName)

\* C8 amended: no usable device name, or no distance, is ignored with no
\* lookup and no insert; with a name and no distance, and an event
\* classifier that is absent, empty or "up", the ignored response carries
\* the id resolved from the name with its surrounding whitespace removed.
C8_IgnoredCarriesTrimmedName ==
    Chs =>
        /\ (SentName = NoneStr \/ DistanceAbsent) =>
              /\ NoCollaboratorCall
              /\ Done => IgnoredOutcome
        /\ (SentName # NoneStr /\ DistanceAbsent /\ Done
              /\ query_event \in {NoneStr, "", "up"}) =>
              /\ "meter_id" \in response.keys
              /\ response.meter_id = MappedId(strip(SentName))

\* A mapped name sent with surrounding blanks and no distance: the ignored
\* response carries the mapped id.
C8_Witness ==
    /\ Chs /\ Done /\ IgnoredOutcome
    /\ SentName = " nivell_gasoil_escola " /\ DistanceAbsent
    /\ response.meter_id = "gasoil_escola"
    /\ response.detail = "missing object.distancia_mm"

\* C9: the conversion returns diagnostics beside the value and the display
\* unit, and the response of a stored reading carries them.
C9_DiagnosticsReturned ==
    (Done /\ response.status = "inserted") =>
        /\ Len(conv.ret) = 3
        /\ "diagnostics" \in response.keys

\* The payload of /ingest is a JSON object.
GenericObject == Generic /\ body.json = "object"

IdMissing == body.meter_id.t \in {"absent", "null"}
ValueMissing == body.value.t = "absent"
ValueNumber == body.value.t = "num"

\* C10 as stated: a missing meter_id, a missing value or a value that is no
\* number ends in 400 before any lookup; a payload with a meter_id and a
\* number proceeds to the lookup.
C10_ValidationByPresence ==
    GenericObject =>
        /\ (IdMissing \/ ValueMissing \/ ~ValueNumber) =>
              /\ NoCollaboratorCall
              /\ Done => response.code = 400
        /\ (~IdMissing /\ ~ValueMissing /\ ValueNumber /\ pc # "recv") =>
              (pc = "lookup" \/ Lookups # {})

\* What "if not meter_id" and float() accept.
IdTruthy ==
    \/ body.meter_id.t = "str" /\ body.meter_id.s # ""
    \/ body.meter_id.t = "num" /\ body.meter_id.q # Num(0)
ValueConvertible ==
    \/ body.value.t \in {"num", "bool"}
    \/ body.value.t = "str" /\ body.value.s \in {"12.5", " 40 "}

\* C10 amended: a meter_id that is missing or falsy (null, "", 0), a missing
\* value or a value float() rejects (null, a list, a non-numeric string)
\* ends in 400 before any lookup; every other payload (a truthy meter_id and
\* a number, a boolean or a numeric string) proceeds to the lookup.
C10_ValidationByTruthAndFloat ==
    GenericObject =>
        /\ (~IdTruthy \/ ValueMissing \/ ~ValueConvertible) =>
              /\ NoCollaboratorCall
              /\ Done => response.code = 400
        /\ (IdTruthy /\ ~ValueMissing /\ ValueConvertible /\ pc # "recv") =>
              /\ pc = "lookup" \/ Lookups # {}
              /\ response.code # 400
              /\ raw_value = py_float(body.value).q

\* A non-numeric string was refused with 400.
C10_Witness ==
    /\ GenericObject /\ Done
    /\ body.meter_id = JStr("gasoil_escola") /\ body.value = JStr("abc")
    /\ response.code = 400
    /\ response.detail = "Field value must be a number"
    /\ calls = <<>>

====
